---- MODULE Spec2Model ----
(***************************************************************************)
(* Air cargo booking backend: the booking lifecycle (BookingModel), the    *)
(* booking controller's create path (BookingsController.createBooking)     *)
(* and the flight-sequence validation of RouteService, over one shared     *)
(* relational store.  Every `await database.*` of a request is one atomic  *)
(* step; steps of different requests interleave freely.  The reads of the  *)
(* flights table made while a create request is validated are taken in     *)
(* one step with its arrival: no request writes that table.                *)
(***************************************************************************)
EXTENDS Integers, Sequences, FiniteSets, TLC

VARIABLES flights, bookings, events, counters, today, procs

vars == <<flights, bookings, events, counters, today, procs>>
store == <<bookings, events, counters>>

(***************************************************************************)
(* Bounds of the model.                                                    *)
(***************************************************************************)
NProc == 2          \* requests that may be in flight at the same time
MaxBookings == 2    \* booking rows the store may hold
MaxEvents == 4      \* timeline rows the store may hold
MaxDay == 2         \* calendar dates the clock passes through
TableLen == 2       \* rows of a drawn flights table
MaxLegs == 3        \* flight ids in a request to validate a sequence
MaxDate == 3        \* latest calendar date a route search asks for

Procs == 1..NProc

(***************************************************************************)
(* Domain enums (types/index.ts).                                          *)
(***************************************************************************)
BookingStatus == {"BOOKED", "DEPARTED", "ARRIVED", "DELIVERED", "CANCELLED"}
TimelineEventType == {"CREATED", "DEPARTED", "ARRIVED", "DELIVERED", "CANCELLED"}

Airports == {"DEL", "BOM", "BLR"}

(***************************************************************************)
(* Time is counted in minutes; a calendar date is minutes \div 1440.       *)
(***************************************************************************)
minimumConnectionTime == 2 * 60
maxConnectionTime == 24 * 60

Flight(id, o, d, dep, arr) ==
  [id |-> id, origin |-> o, destination |-> d,
   departure_datetime |-> dep, arrival_datetime |-> arr]

\* The flights table as seeded: rows are never written by any request.
SeedFlights ==
  <<Flight(1, "DEL", "BOM", 480, 600),     \* 08:00 - 10:00
    Flight(2, "BOM", "BLR", 750, 840),     \* 12:30 - 14:00, 2.5 h after 1
    Flight(3, "BOM", "BLR", 690, 780),     \* 11:30, 1.5 h after 1
    Flight(4, "DEL", "BLR", 500, 700),     \* direct
    Flight(5, "BOM", "BLR", 2100, 2200)>>  \* next day, 25 h after 1

FlightIds == 1..(Len(SeedFlights) + 1)     \* the last id resolves to no row

\* Request bodies accepted by the validation middleware: 1..2 flight ids.
FlightIdLists ==
  {<<a>> : a \in FlightIds} \cup {<<a, b>> : a \in FlightIds, b \in FlightIds}

\* Caller identity and cargo of a create request.
Shipper1 == [user_id |-> 1, pieces |-> 2, weight_kg |-> 30]
Shipper2 == [user_id |-> 2, pieces |-> 5, weight_kg |-> 40]
Shippers == {Shipper1, Shipper2}

Request(s, o, d, ids) ==
  [user_id |-> s.user_id, origin |-> o, destination |-> d,
   pieces |-> s.pieces, weight_kg |-> s.weight_kg, flight_ids |-> ids]

\* Every request body over the airports and flight ids above.
CreateBookingRequest ==
  {Request(s, o, d, ids) :
      s \in Shippers, o \in Airports, d \in Airports, ids \in FlightIdLists}

\* The request bodies sent while other requests are around: two bookable
\* itineraries and one request for each way of being turned down.
TypicalRequests ==
  {Request(Shipper1, "DEL", "BOM", <<1>>),      \* direct
   Request(Shipper2, "DEL", "BLR", <<2, 1>>),   \* transit, ids not in flying order
   Request(Shipper1, "DEL", "BLR", <<1>>),      \* lands elsewhere
   Request(Shipper2, "BOM", "BLR", <<1, 2>>),   \* starts elsewhere
   Request(Shipper1, "DEL", "DEL", <<1>>),      \* origin = destination
   Request(Shipper1, "DEL", "BLR", <<1, 3>>),   \* 1.5 h connection
   Request(Shipper2, "DEL", "BLR", <<1, 5>>),   \* 25 h connection
   Request(Shipper2, "DEL", "BLR", <<1, 4>>),   \* legs do not meet
   Request(Shipper1, "DEL", "BOM", <<6>>)}      \* unknown flight

Range(s) == {s[i] : i \in DOMAIN s}

(***************************************************************************)
(* Flights tables a route search may meet.  Day 1 starts at minute 1440.   *)
(***************************************************************************)
Legs == {<<"DEL", "BOM">>, <<"BOM", "BLR">>, <<"DEL", "BLR">>}

\* Departures: two first legs (08:00 of day 1, 23:00 of day 1 landing on day
\* 2) and second legs 1 h 59, 2 h, 24 h and 24 h 01 after each lands.
DepartureTimes == {1920, 2820, 2159, 2160, 3480, 3481, 3060, 4380, 4381}

FlightDuration == 2 * 60

FlightShapes ==
  {[origin |-> l[1], destination |-> l[2], departure_datetime |-> t,
    arrival_datetime |-> t + FlightDuration] : l \in Legs, t \in DepartureTimes}

\* AUTOINCREMENT: the id of a row is its position
WithIds(rows) ==
  [i \in DOMAIN rows |->
     Flight(i, rows[i].origin, rows[i].destination,
            rows[i].departure_datetime, rows[i].arrival_datetime)]

DrawnTables == {WithIds(rows) : rows \in [1..TableLen -> FlightShapes]}

\* A busy hub: two morning first legs DEL->BOM of day 1, seven second legs
\* BOM->BLR of unequal length, one direct flight, a flight back, and a late
\* first leg that lands on day 2.
BusyFlights ==
  <<Flight(1, "DEL", "BOM", 1920, 2040),    \* 08:00 - 10:00
    Flight(2, "DEL", "BOM", 1980, 2100),    \* 09:00 - 11:00
    Flight(3, "BOM", "BLR", 2160, 2400),    \* 12:00 - 16:00
    Flight(4, "BOM", "BLR", 2220, 2280),    \* 13:00 - 14:00
    Flight(5, "BOM", "BLR", 2400, 2520),    \* 16:00 - 18:00
    Flight(6, "BOM", "BLR", 2700, 2760),    \* 21:00 - 22:00
    Flight(7, "BOM", "BLR", 3000, 3060),    \* day 2, 02:00 - 03:00
    Flight(8, "BOM", "BLR", 3300, 3540),    \* day 2, 07:00 - 11:00
    Flight(9, "BOM", "BLR", 3420, 3480),    \* day 2, 09:00 - 10:00
    Flight(10, "DEL", "BLR", 1950, 2100),   \* direct, 08:30 - 11:00
    Flight(11, "BLR", "DEL", 2700, 2880),   \* back, 21:00 - 24:00
    Flight(12, "DEL", "BOM", 2820, 2940)>>  \* 23:00 - 01:00 of day 2

\* The same hub before the late first leg was scheduled.
HubFlights == SubSeq(BusyFlights, 1, 11)

FlightTables == DrawnTables \cup {SeedFlights, HubFlights, BusyFlights}

(***************************************************************************)
(* RouteService                                                            *)
(***************************************************************************)
\* ORDER BY f.departure_datetime ASC over a set of rows (rowid breaks ties).
RECURSIVE OrderByDeparture(_)
OrderByDeparture(rows) ==
  IF rows = {} THEN <<>>
  ELSE LET first == CHOOSE f \in rows : \A g \in rows :
                       \/ f.departure_datetime < g.departure_datetime
                       \/ /\ f.departure_datetime = g.departure_datetime
                          /\ f.id <= g.id
       IN <<first>> \o OrderByDeparture(rows \ {first})

\* SELECT ... WHERE f.id IN (ids) ORDER BY f.departure_datetime ASC
getFlightDetails(flightIds) ==
  IF Len(flightIds) = 0 THEN <<>>
  ELSE OrderByDeparture({flights[i] : i \in DOMAIN flights \cap Range(flightIds)})

\* the pair check with a connection of exactly 2 hours turned down
PairErrorExclusive(currentFlight, nextFlight) ==
  LET connectionTime == nextFlight.departure_datetime - currentFlight.arrival_datetime
  IN IF currentFlight.destination # nextFlight.origin THEN "RouteBreak"
     ELSE IF connectionTime <= minimumConnectionTime THEN "InsufficientConnection"
     ELSE IF connectionTime > maxConnectionTime THEN "ConnectionTooLong"
     ELSE ""

\* Error of the pair (leg i, leg i+1), "" when the pair is acceptable.
PairError(currentFlight, nextFlight) ==
  LET connectionTime == nextFlight.departure_datetime - currentFlight.arrival_datetime
  IN IF currentFlight.destination # nextFlight.origin THEN "RouteBreak"
     ELSE IF connectionTime < minimumConnectionTime THEN "InsufficientConnection"
     ELSE IF connectionTime > maxConnectionTime THEN "ConnectionTooLong"
     ELSE ""

\* "" when valid, else the failure kind of the first offending pair.
validateFlightSequence(flightIds) ==
  IF Len(flightIds) = 0 THEN "InvalidSequence"
  ELSE LET fl == getFlightDetails(flightIds)
       IN IF Len(fl) # Len(flightIds) THEN "InvalidSequence"
          ELSE LET bad == {i \in 1..(Len(fl) - 1) : PairError(fl[i], fl[i + 1]) # ""}
               IN IF bad = {} THEN ""
                  ELSE LET i == CHOOSE k \in bad : \A j \in bad : k <= j
                       IN PairError(fl[i], fl[i + 1])

(***************************************************************************)
(* BookingsController.createBooking: the checks made before the first      *)
(* write.  "" when the request passes on to BookingModel.create.           *)
(***************************************************************************)
\* the route check comparing the origin only
RouteMismatchOriginOnly(req) ==
  LET fl == getFlightDetails(req.flight_ids)
  IN fl[1].origin # req.origin

RouteMismatch(req) ==
  LET fl == getFlightDetails(req.flight_ids)
  IN fl[1].origin # req.origin \/ fl[Len(fl)].destination # req.destination

createBookingValidation(req) ==
  IF req.origin = req.destination THEN "InvalidRoute"
  ELSE IF validateFlightSequence(req.flight_ids) # ""
       THEN validateFlightSequence(req.flight_ids)
  ELSE IF Len(getFlightDetails(req.flight_ids)) = 0 THEN "InvalidFlights"
  ELSE IF RouteMismatch(req) THEN "RouteMismatch"
  ELSE ""

ValidationFailures ==
  {"InvalidRoute", "InvalidSequence", "RouteBreak", "InsufficientConnection",
   "ConnectionTooLong", "InvalidFlights", "RouteMismatch"}

(***************************************************************************)
(* RouteService.findRoutes and RoutesController.searchRoutes.  Datetimes   *)
(* are stored as UTC ISO strings of one format, so comparing the strings   *)
(* compares the instants and DATE() is the UTC calendar date.              *)
(***************************************************************************)
MinutesPerDay == 24 * 60

\* DATE(f.departure_datetime), formatDateToString(date)
DateOf(t) == t \div MinutesPerDay

\* LIMIT n, slice(0, n)
Take(s, n) == SubSeq(s, 1, IF Len(s) < n THEN Len(s) ELSE n)

secondLegLimit == 5
maxTransitRoutes == 10

\* the direct query without its ORDER BY: rows come in table order
findDirectFlightsInTableOrder(origin, destination, departure_date) ==
  SelectSeq(flights, LAMBDA f : /\ f.origin = origin
                                /\ f.destination = destination
                                /\ DateOf(f.departure_datetime) = departure_date)

findDirectFlights(origin, destination, departure_date) ==
  OrderByDeparture({f \in Range(flights) :
                      /\ f.origin = origin
                      /\ f.destination = destination
                      /\ DateOf(f.departure_datetime) = departure_date})

\* findTransitRoutes: flights leaving the origin on the date for elsewhere
firstLegFlights(origin, destination, departure_date) ==
  OrderByDeparture({f \in Range(flights) :
                      /\ f.origin = origin
                      /\ DateOf(f.departure_datetime) = departure_date
                      /\ f.destination # destination})

\* the second-leg query asking for a departure after the earliest one
secondLegFlightsLater(firstFlight, destination) ==
  LET transitHub == firstFlight.destination
      firstFlightArrival == firstFlight.arrival_datetime
      sameDay == DateOf(firstFlightArrival)
      nextDay == DateOf(firstFlightArrival + MinutesPerDay)
      earliestDeparture == firstFlightArrival + minimumConnectionTime
  IN Take(OrderByDeparture({f \in Range(flights) :
                              /\ f.origin = transitHub
                              /\ f.destination = destination
                              /\ DateOf(f.departure_datetime) \in {sameDay, nextDay}
                              /\ f.departure_datetime > earliestDeparture}),
          secondLegLimit)

\* findTransitRoutes: the second-leg query of one first leg
secondLegFlights(firstFlight, destination) ==
  LET transitHub == firstFlight.destination
      firstFlightArrival == firstFlight.arrival_datetime
      sameDay == DateOf(firstFlightArrival)
      nextDay == DateOf(firstFlightArrival + MinutesPerDay)
      earliestDeparture == firstFlightArrival + minimumConnectionTime
  IN Take(OrderByDeparture({f \in Range(flights) :
                              /\ f.origin = transitHub
                              /\ f.destination = destination
                              /\ DateOf(f.departure_datetime) \in {sameDay, nextDay}
                              /\ f.departure_datetime >= earliestDeparture}),
          secondLegLimit)

\* the connection window applied to the legs the query returned, its upper
\* end left out
ConnectionOKNoMaximum(firstFlight, secondFlight) ==
  secondFlight.departure_datetime - firstFlight.arrival_datetime >= minimumConnectionTime

\* findTransitRoutes: 2 hours <= connectionTime <= 24 hours
ConnectionOK(firstFlight, secondFlight) ==
  LET connectionTime == secondFlight.departure_datetime - firstFlight.arrival_datetime
  IN connectionTime >= minimumConnectionTime /\ connectionTime <= maxConnectionTime

\* findTransitRoutes: the routes pushed for one first leg
RoutesVia(firstFlight, destination) ==
  LET ok(f) == ConnectionOK(firstFlight, f)
      legs == SelectSeq(secondLegFlights(firstFlight, destination), ok)
  IN [k \in 1..Len(legs) |-> [first_flight |-> firstFlight, second_flight |-> legs[k]]]

RECURSIVE PushRoutes(_, _)
PushRoutes(firstLegs, destination) ==
  IF firstLegs = <<>> THEN <<>>
  ELSE RoutesVia(Head(firstLegs), destination) \o PushRoutes(Tail(firstLegs), destination)

totalTime(route) ==
  route.second_flight.arrival_datetime - route.first_flight.departure_datetime

\* Array.prototype.sort with totalTimeA - totalTimeB: stable, ascending
RECURSIVE SortByTotalTime(_)
SortByTotalTime(routes) ==
  IF routes = <<>> THEN <<>>
  ELSE LET n == Len(routes)
           last == routes[n]
           front == SortByTotalTime(SubSeq(routes, 1, n - 1))
           notAfter(r) == totalTime(r) <= totalTime(last)
           after(r) == totalTime(r) > totalTime(last)
       IN SelectSeq(front, notAfter) \o <<last>> \o SelectSeq(front, after)

\* the routes of findTransitRoutes returned in the order they were pushed
findTransitRoutesUnsorted(origin, destination, departure_date) ==
  Take(PushRoutes(firstLegFlights(origin, destination, departure_date), destination),
       maxTransitRoutes)

findTransitRoutes(origin, destination, departure_date) ==
  Take(SortByTotalTime(
         PushRoutes(firstLegFlights(origin, destination, departure_date), destination)),
       maxTransitRoutes)

findRoutes(request) ==
  [direct_flights |-> findDirectFlights(request.origin, request.destination,
                                        request.departure_date),
   transit_routes |-> findTransitRoutes(request.origin, request.destination,
                                        request.departure_date)]

\* new Date(datetime).getTime(): milliseconds
getTime(t) == t * 60 * 1000

\* Math.round(n / d) for d > 0
MathRound(n, d) == (2 * n + d) \div (2 * d)

MinutesBetween(from, to) == MathRound(getTime(to) - getTime(from), 1000 * 60)

\* searchRoutes: one entry of results.transit_routes.routes
TransitRouteView(route) ==
  [first_flight |-> route.first_flight,
   second_flight |-> route.second_flight,
   total_duration_minutes |->
     MinutesBetween(route.first_flight.departure_datetime,
                    route.second_flight.arrival_datetime),
   connection_time_minutes |->
     MinutesBetween(route.first_flight.arrival_datetime,
                    route.second_flight.departure_datetime),
   transit_hub |-> route.first_flight.destination]

\* searchRoutes: the data of the answer
SearchResponse(request) ==
  LET routes == findRoutes(request)
  IN [direct_flights |-> routes.direct_flights,
      transit_routes |-> [k \in 1..Len(routes.transit_routes) |->
                            TransitRouteView(routes.transit_routes[k])],
      total_options |-> Len(routes.direct_flights) + Len(routes.transit_routes)]

(***************************************************************************)
(* Reference ids: AC-YYYYMMDD-NNNN.  The date part is the day number, the  *)
(* counter part the decimal digits of the counter left-padded to 4.        *)
(***************************************************************************)
RECURSIVE Digits(_)
Digits(n) == IF n < 10 THEN <<n>> ELSE Digits(n \div 10) \o <<n % 10>>

RECURSIVE padStart(_, _, _)
padStart(s, targetLength, fill) ==
  IF Len(s) >= targetLength THEN s ELSE padStart(<<fill>> \o s, targetLength, fill)

FormatRefId(dateKey, counter) ==
  [prefix |-> "AC", date |-> dateKey, num |-> padStart(Digits(counter), 4, 0)]

\* The text of a reference id, character by character.
DigitChars == <<"0", "1", "2", "3", "4", "5", "6", "7", "8", "9">>

\* String(n).padStart(width, '0')
PaddedNumber(n, width) ==
  LET digits == padStart(Digits(n), width, 0)
  IN [i \in DOMAIN digits |-> DigitChars[digits[i] + 1]]

\* The calendar date of a day number: day 0 is 2025-12-30, so that the days
\* of the model run over the turn of a year.
CalendarDate(day) ==
  IF day < 2 THEN [year |-> 2025, month |-> 12, day |-> 30 + day]
  ELSE [year |-> 2026, month |-> 1, day |-> day - 1]

\* today.toISOString().split('T')[0]: YYYY-MM-DD
toISODate(day) ==
  LET date == CalendarDate(day)
  IN PaddedNumber(date.year, 4) \o <<"-">> \o PaddedNumber(date.month, 2)
       \o <<"-">> \o PaddedNumber(date.day, 2)

\* dateKey.replace(/-/g, '')
formattedDate(dateKey) == SelectSeq(dateKey, LAMBDA c : c # "-")

\* `AC-${formattedDate}-${paddedCounter}`
RefIdText(ref_id) ==
  <<"A", "C", "-">> \o formattedDate(toISODate(ref_id.date)) \o <<"-">>
    \o [i \in DOMAIN ref_id.num |-> DigitChars[ref_id.num[i] + 1]]

NoRef == [prefix |-> "", date |-> 0, num |-> <<>>]

\* A well-formed reference id that no booking carries.
NoSuchRef == FormatRefId(0, 0)

(***************************************************************************)
(* Store helpers                                                           *)
(***************************************************************************)
\* SELECT * FROM bookings WHERE ref_id = ?  (0 when no row)
findByRefId(ref_id) ==
  IF \E i \in DOMAIN bookings : bookings[i].ref_id = ref_id
  THEN CHOOSE i \in DOMAIN bookings : bookings[i].ref_id = ref_id
  ELSE 0

\* The timeline_events table, kept as one list of rows per booking id in the
\* order of insertion: every statement on the table names one booking_id.
\* the timeline query returning the latest event only
getTimelineLatestOnly(booking_id) ==
  IF events[booking_id] = <<>> THEN <<>>
  ELSE <<events[booking_id][Len(events[booking_id])]>>

\* SELECT * FROM timeline_events WHERE booking_id = ? ORDER BY created_at ASC
getTimelineByBookingId(booking_id) == events[booking_id]

TimelineEvent(booking_id, event_type, location) ==
  [booking_id |-> booking_id, event_type |-> event_type, location |-> location]

\* INSERT INTO timeline_events
InsertEvent(e) == [events EXCEPT ![e.booking_id] = Append(@, e)]

RECURSIVE SumLen(_)
SumLen(seqs) == IF seqs = <<>> THEN 0 ELSE Len(Head(seqs)) + SumLen(Tail(seqs))

\* Number of rows of timeline_events
EventCount == SumLen(events)

(***************************************************************************)
(* Request slots                                                           *)
(***************************************************************************)
NoReq == [user_id |-> 0, origin |-> "", destination |-> "", pieces |-> 0,
          weight_kg |-> 0, flight_ids |-> <<>>]
NoRet == [status |-> "", timeline |-> <<>>]

IdleProc ==
  [op |-> "none", pc |-> "idle", ref_id |-> NoRef, location |-> "",
   req |-> NoReq, dateKey |-> 0, counter |-> 0, booking_id |-> 0,
   status |-> "", result |-> "none", ret |-> NoRet]

\* A finished request keeps what it was, what it asked and what it was answered.
Finished(proc, result, ret) ==
  [IdleProc EXCEPT !.op = proc.op, !.pc = "done", !.ref_id = proc.ref_id,
                   !.req = proc.req, !.status = proc.status,
                   !.result = result, !.ret = ret]

Done(p, result, ret) == Finished(procs[p], result, ret)

Active(q) == procs[q].pc \notin {"idle", "done"}

\* Slots are interchangeable: a request takes the first free one.
MayStart(p) ==
  /\ procs[p].pc = "idle"
  /\ \A q \in Procs : q < p => procs[q].pc # "idle"

\* Reference ids a client may put in the path of a request.
RefIds == {bookings[i].ref_id : i \in DOMAIN bookings} \cup {NoSuchRef}

\* Requests in flight that may still append a timeline event.
MayAppend == {q \in Procs : Active(q)}

Init ==
  /\ flights = SeedFlights
  /\ bookings = <<>>
  /\ events = <<>>
  /\ counters = [d \in {} |-> 0]
  /\ today = 1
  /\ procs = [p \in Procs |-> IdleProc]

(***************************************************************************)
(* The clock: midnight passes.                                             *)
(***************************************************************************)
Tick ==
  /\ today < MaxDay
  /\ today' = today + 1
  /\ UNCHANGED <<flights, bookings, events, counters, procs>>

(***************************************************************************)
(* POST /bookings                                                          *)
(***************************************************************************)
CreatesInFlight == {q \in Procs : procs[q].op = "create" /\ Active(q)}

\* createBooking reserving the day's counter before it checks the request
createBookingCountingFirst(p, requests) ==
  /\ MayStart(p)
  /\ Len(bookings) + Cardinality(CreatesInFlight) < MaxBookings
  /\ EventCount + Cardinality(MayAppend) < MaxEvents
  /\ \E req \in requests :
       LET proc == [IdleProc EXCEPT !.op = "create", !.pc = "generateRefId", !.req = req]
           failure == createBookingValidation(req)
       IN procs' = [procs EXCEPT ![p] =
                      IF failure # "" THEN Finished(proc, failure, NoRet) ELSE proc]
  /\ counters' = [d \in DOMAIN counters \cup {today} |->
                    IF d \in DOMAIN counters THEN counters[d] + 1 ELSE 1]
  /\ UNCHANGED <<flights, bookings, events, today>>

\* createBooking up to the call of BookingModel.create: the request body is
\* checked against the (never written) flights table before the first write.
createBooking(p, requests) ==
  /\ MayStart(p)
  /\ Len(bookings) + Cardinality(CreatesInFlight) < MaxBookings
  /\ EventCount + Cardinality(MayAppend) < MaxEvents
  /\ \E req \in requests :
       LET proc == [IdleProc EXCEPT !.op = "create", !.pc = "generateRefId", !.req = req]
           failure == createBookingValidation(req)
       IN procs' = [procs EXCEPT ![p] =
                      IF failure # "" THEN Finished(proc, failure, NoRet) ELSE proc]
  /\ UNCHANGED <<flights, bookings, events, counters, today>>

\* generateRefId with a SELECT that finds no counter row
generateRefIdNoRow(p) ==
  /\ procs[p].pc = "generateRefId"
  /\ procs' = [procs EXCEPT ![p] =
       [@ EXCEPT !.pc = "generateRefIdWrite", !.dateKey = today, !.counter = 0]]
  /\ UNCHANGED <<flights, bookings, events, counters, today>>

\* generateRefId: SELECT counter FROM booking_counters WHERE date_key = today
generateRefId(p) ==
  /\ procs[p].pc = "generateRefId"
  /\ procs' = [procs EXCEPT ![p] =
       [@ EXCEPT !.pc = "generateRefIdWrite",
                 !.dateKey = today,
                 !.counter = IF today \in DOMAIN counters THEN counters[today] ELSE 0]]
  /\ UNCHANGED <<flights, bookings, events, counters, today>>

\* generateRefId: INSERT the day's row, or UPDATE counter = counter + 1
generateRefIdWrite(p) ==
  /\ procs[p].pc = "generateRefIdWrite"
  /\ LET dateKey == procs[p].dateKey
         counter == procs[p].counter
     IN IF counter = 0
        THEN IF dateKey \in DOMAIN counters
             THEN \* PRIMARY KEY violation: 'Failed to generate reference ID'
                  /\ procs' = [procs EXCEPT ![p] = Done(p, "InternalError", NoRet)]
                  /\ UNCHANGED counters
             ELSE /\ counters' = [d \in DOMAIN counters \cup {dateKey} |->
                                    IF d = dateKey THEN 1 ELSE counters[d]]
                  /\ procs' = [procs EXCEPT ![p] =
                       [@ EXCEPT !.pc = "insertBooking", !.counter = 1,
                                 !.ref_id = FormatRefId(dateKey, 1)]]
        ELSE /\ counters' = [counters EXCEPT ![dateKey] = @ + 1]
             /\ procs' = [procs EXCEPT ![p] =
                  [@ EXCEPT !.pc = "insertBooking", !.counter = counter + 1,
                            !.ref_id = FormatRefId(dateKey, counter + 1)]]
  /\ UNCHANGED <<flights, bookings, events, today>>

(***************************************************************************)
(* The flight_ids column is TEXT: the JSON of the list of flight ids.  A   *)
(* text is kept as the list of its characters.  Of JSON the texts here use *)
(* arrays of non-negative integers, single integers and null; every other  *)
(* text is a SyntaxError.                                                  *)
(***************************************************************************)
NumberText(n) == LET d == Digits(n) IN [i \in DOMAIN d |-> DigitChars[d[i] + 1]]

RECURSIVE JoinNumbers(_)
JoinNumbers(ids) ==
  IF Len(ids) = 0 THEN <<>>
  ELSE IF Len(ids) = 1 THEN NumberText(ids[1])
  ELSE NumberText(ids[1]) \o <<",">> \o JoinNumbers(Tail(ids))

\* JSON.stringify of a list of flight ids
JSONstringify(ids) == <<"[">> \o JoinNumbers(ids) \o <<"]">>

DigitValue(c) == CHOOSE d \in 0..9 : DigitChars[d + 1] = c

IsNumberText(t) ==
  /\ Len(t) > 0
  /\ \A i \in DOMAIN t : t[i] \in Range(DigitChars)
  /\ Len(t) > 1 => t[1] # "0"

RECURSIVE NumberValue(_)
NumberValue(t) ==
  IF Len(t) = 0 THEN 0
  ELSE NumberValue(SubSeq(t, 1, Len(t) - 1)) * 10 + DigitValue(t[Len(t)])

\* The pieces of a text between its commas
RECURSIVE SplitAtCommas(_)
SplitAtCommas(t) ==
  IF \A i \in DOMAIN t : t[i] # ","
  THEN <<t>>
  ELSE LET k == CHOOSE i \in DOMAIN t : t[i] = "," /\ \A j \in 1..(i - 1) : t[j] # ","
       IN <<SubSeq(t, 1, k - 1)>> \o SplitAtCommas(SubSeq(t, k + 1, Len(t)))

\* a parser that reads whatever digits the text holds as a list of ids
JSONparseLenient(text) ==
  LET digits == SelectSeq(text, LAMBDA c : c \in Range(DigitChars))
  IN [kind |-> "array", value |-> [i \in DOMAIN digits |-> DigitValue(digits[i])]]

\* JSON.parse: the kind of value read, or SyntaxError
JSONparse(text) ==
  IF text = <<"n", "u", "l", "l">> THEN [kind |-> "null", value |-> <<>>]
  ELSE IF IsNumberText(text) THEN [kind |-> "number", value |-> <<NumberValue(text)>>]
  ELSE IF Len(text) >= 2 /\ text[1] = "[" /\ text[Len(text)] = "]"
  THEN LET inner == SubSeq(text, 2, Len(text) - 1)
           parts == SplitAtCommas(inner)
       IN IF Len(inner) = 0 THEN [kind |-> "array", value |-> <<>>]
          ELSE IF \A k \in DOMAIN parts : IsNumberText(parts[k])
          THEN [kind |-> "array",
                value |-> [k \in DOMAIN parts |-> NumberValue(parts[k])]]
          ELSE [kind |-> "SyntaxError", value |-> <<>>]
  ELSE [kind |-> "SyntaxError", value |-> <<>>]

\* INSERT with the origin and destination parameters in each other's place
BookingRowSwapped(ref_id, req) ==
  [ref_id |-> ref_id, user_id |-> req.user_id, origin |-> req.destination,
   destination |-> req.origin, pieces |-> req.pieces,
   weight_kg |-> req.weight_kg, status |-> "BOOKED",
   flight_ids |-> JSONstringify(req.flight_ids)]

BookingRow(ref_id, req) ==
  [ref_id |-> ref_id, user_id |-> req.user_id, origin |-> req.origin,
   destination |-> req.destination, pieces |-> req.pieces,
   weight_kg |-> req.weight_kg, status |-> "BOOKED",
   flight_ids |-> JSONstringify(req.flight_ids)]

\* create: INSERT INTO bookings (ref_id is UNIQUE)
insertBooking(p) ==
  /\ procs[p].pc = "insertBooking"
  /\ IF findByRefId(procs[p].ref_id) # 0
     THEN /\ procs' = [procs EXCEPT ![p] = Done(p, "InternalError", NoRet)]
          /\ UNCHANGED <<bookings, events>>
     ELSE /\ bookings' = Append(bookings, BookingRow(procs[p].ref_id, procs[p].req))
          /\ events' = Append(events, <<>>)
          /\ procs' = [procs EXCEPT ![p] =
               [@ EXCEPT !.pc = "insertCreated", !.booking_id = Len(bookings) + 1]]
  /\ UNCHANGED <<flights, counters, today>>

\* create: INSERT INTO timeline_events (CREATED at the origin)
insertCreated(p) ==
  /\ procs[p].pc = "insertCreated"
  /\ events' = InsertEvent(
                 TimelineEvent(procs[p].booking_id, "CREATED", procs[p].req.origin))
  /\ procs' = [procs EXCEPT ![p] = [@ EXCEPT !.pc = "createFind"]]
  /\ UNCHANGED <<flights, bookings, counters, today>>

\* create: findByRefId(ref_id), the booking handed back to the controller
createFind(p) ==
  /\ procs[p].pc = "createFind"
  /\ LET id == findByRefId(procs[p].ref_id)
     IN procs' = [procs EXCEPT ![p] =
          IF id = 0 THEN Done(p, "InternalError", NoRet)
          ELSE [@ EXCEPT !.pc = "createHistory", !.ret.status = bookings[id].status]]
  /\ UNCHANGED <<flights, bookings, events, counters, today>>

\* createBooking: getBookingHistory(ref_id) and the 201 response
createHistory(p) ==
  /\ procs[p].pc = "createHistory"
  /\ LET id == findByRefId(procs[p].ref_id)
     IN procs' = [procs EXCEPT ![p] =
          Done(p, "Created",
               [status |-> procs[p].ret.status,
                timeline |-> IF id = 0 THEN <<>> ELSE getTimelineByBookingId(id)])]
  /\ UNCHANGED <<flights, bookings, events, counters, today>>

(***************************************************************************)
(* PUT /bookings/:ref_id/depart, /arrive                                   *)
(***************************************************************************)
Locations == {"DEL", "BOM"}

ReceiveTransition(p, ops) ==
  /\ MayStart(p)
  /\ EventCount + Cardinality(MayAppend) < MaxEvents
  /\ \E op \in ops, ref_id \in RefIds, location \in Locations :
       procs' = [procs EXCEPT ![p] =
                   [IdleProc EXCEPT !.op = op, !.pc = "updateStatus",
                                    !.ref_id = ref_id, !.location = location]]
  /\ UNCHANGED <<flights, bookings, events, counters, today>>

\* updateStatus called without the status it expects to find
RequiredStatusUnconditional(op) == ""

RequiredStatus(op) == IF op = "depart" THEN "BOOKED" ELSE "DEPARTED"
\* arrive writing the status of a delivery
NewStatusDelivered(op) == IF op = "depart" THEN "DEPARTED" ELSE "DELIVERED"

\* depart writing the status that arrive writes
NewStatusArrived(op) == "ARRIVED"

NewStatus(op) == IF op = "depart" THEN "DEPARTED" ELSE "ARRIVED"

\* the UPDATE matching on the reference id alone
RowsToUpdateByRefId(ref_id, currentStatus) ==
  {i \in DOMAIN bookings : bookings[i].ref_id = ref_id}

\* Rows changed by UPDATE bookings SET status = ? WHERE ref_id = ? [AND status = ?]
\* ("" for currentStatus: no status condition)
RowsToUpdate(ref_id, currentStatus) ==
  {i \in DOMAIN bookings :
     /\ bookings[i].ref_id = ref_id
     /\ currentStatus # "" => bookings[i].status = currentStatus}

\* the UPDATE without its WHERE clause: every row is written once one matches
SetStatusEveryRow(rows, newStatus) ==
  [i \in DOMAIN bookings |->
     IF rows # {} THEN [bookings[i] EXCEPT !.status = newStatus] ELSE bookings[i]]

SetStatus(rows, newStatus) ==
  [i \in DOMAIN bookings |->
     IF i \in rows THEN [bookings[i] EXCEPT !.status = newStatus] ELSE bookings[i]]

\* depart / arrive: updateStatus(ref_id, newStatus, currentStatus)
updateStatus(p) ==
  /\ procs[p].pc = "updateStatus"
  /\ LET rows == RowsToUpdate(procs[p].ref_id, RequiredStatus(procs[p].op))
     IN /\ bookings' = SetStatus(rows, NewStatus(procs[p].op))
        /\ procs' = [procs EXCEPT ![p] =
             IF rows = {} THEN Done(p, "false", NoRet)
             ELSE [@ EXCEPT !.pc = "transitionFind"]]
  /\ UNCHANGED <<flights, events, counters, today>>

\* depart / arrive: findByRefId(ref_id) for the event's booking id
transitionFind(p) ==
  /\ procs[p].pc = "transitionFind"
  /\ LET id == findByRefId(procs[p].ref_id)
     IN procs' = [procs EXCEPT ![p] =
          IF id = 0 THEN Done(p, "false", NoRet)
          ELSE [@ EXCEPT !.pc = "transitionInsert", !.booking_id = id]]
  /\ UNCHANGED <<flights, bookings, events, counters, today>>

\* depart / arrive: INSERT INTO timeline_events
transitionInsert(p) ==
  /\ procs[p].pc = "transitionInsert"
  /\ events' = InsertEvent(
                 TimelineEvent(procs[p].booking_id, NewStatus(procs[p].op),
                               procs[p].location))
  /\ procs' = [procs EXCEPT ![p] = Done(p, "true", NoRet)]
  /\ UNCHANGED <<flights, bookings, counters, today>>

(***************************************************************************)
(* PUT /bookings/:ref_id/cancel                                            *)
(***************************************************************************)
ReceiveCancel(p) ==
  /\ MayStart(p)
  /\ EventCount + Cardinality(MayAppend) < MaxEvents
  /\ \E ref_id \in RefIds :
       procs' = [procs EXCEPT ![p] =
                   [IdleProc EXCEPT !.op = "cancel", !.pc = "cancelFind",
                                    !.ref_id = ref_id]]
  /\ UNCHANGED <<flights, bookings, events, counters, today>>

\* cancel refusing delivered bookings only
CannotCancelDelivered(status) == status = "DELIVERED"

CannotCancel(status) == status = "ARRIVED" \/ status = "DELIVERED"

\* cancel: findByRefId and the check of the loaded status
cancelFind(p) ==
  /\ procs[p].pc = "cancelFind"
  /\ LET id == findByRefId(procs[p].ref_id)
     IN procs' = [procs EXCEPT ![p] =
          IF id = 0 THEN Done(p, "false", NoRet)
          ELSE IF CannotCancel(bookings[id].status) THEN Done(p, "false", NoRet)
          ELSE [@ EXCEPT !.pc = "cancelUpdate", !.booking_id = id,
                         !.status = bookings[id].status]]
  /\ UNCHANGED <<flights, bookings, events, counters, today>>

\* cancel: updateStatus(ref_id, CANCELLED), no status condition
cancelUpdate(p) ==
  /\ procs[p].pc = "cancelUpdate"
  /\ LET rows == RowsToUpdate(procs[p].ref_id, "")
     IN /\ bookings' = SetStatus(rows, "CANCELLED")
        /\ procs' = [procs EXCEPT ![p] =
             IF rows = {} THEN Done(p, "false", NoRet)
             ELSE [@ EXCEPT !.pc = "cancelInsert"]]
  /\ UNCHANGED <<flights, events, counters, today>>

\* cancel: INSERT INTO timeline_events (CANCELLED, no location)
cancelInsert(p) ==
  /\ procs[p].pc = "cancelInsert"
  /\ events' = InsertEvent(TimelineEvent(procs[p].booking_id, "CANCELLED", ""))
  /\ procs' = [procs EXCEPT ![p] = Done(p, "true", NoRet)]
  /\ UNCHANGED <<flights, bookings, counters, today>>

(***************************************************************************)
(* GET /bookings/:ref_id/history: TimelineService.getBookingHistory, query *)
(* by query.  The airlines of the flights are read from a table that no    *)
(* request writes and are not kept.                                        *)
(***************************************************************************)
ReceiveHistory(p) ==
  /\ MayStart(p)
  /\ \E ref_id \in RefIds :
       procs' = [procs EXCEPT ![p] =
                   [IdleProc EXCEPT !.op = "history", !.pc = "historyFind",
                                    !.ref_id = ref_id]]
  /\ UNCHANGED <<flights, bookings, events, counters, today>>

\* getBookingHistory: SELECT * FROM bookings WHERE ref_id = ?
historyFind(p) ==
  /\ procs[p].pc = "historyFind"
  /\ LET id == findByRefId(procs[p].ref_id)
     IN procs' = [procs EXCEPT ![p] =
          IF id = 0 THEN Done(p, "NotFound", NoRet)
          ELSE [@ EXCEPT !.pc = "historyTimeline", !.booking_id = id,
                         !.ret = [booking |-> bookings[id], timeline |-> <<>>,
                                  flight_details |-> <<>>,
                                  airline_details |-> {}]]]
  /\ UNCHANGED <<flights, bookings, events, counters, today>>

\* getBookingHistory: the timeline events of the booking
historyTimeline(p) ==
  /\ procs[p].pc = "historyTimeline"
  /\ procs' = [procs EXCEPT ![p] =
       [@ EXCEPT !.pc = "historyFlights",
                 !.ret.timeline = getTimelineByBookingId(procs[p].booking_id)]]
  /\ UNCHANGED <<flights, bookings, events, counters, today>>

\* The airlines seeded, and the airline of a flight: the seed draws it at
\* random for each flight, here it is one fixed draw.
AirlineCodes == <<"AI", "6E", "SG", "UK", "G8", "I5">>

airline_id(flight) == (flight.id % Len(AirlineCodes)) + 1

\* getBookingHistory, "Get flight details if available": nothing for a NULL
\* or empty column; inside the try, JSON.parse throws on a malformed text,
\* getFlightDetails returns [] for null and throws a TypeError on a value
\* that is not a list, and the catch leaves the details empty.
flightDetails(flight_ids) ==
  IF Len(flight_ids) = 0 THEN <<>>
  ELSE LET flightIds == JSONparse(flight_ids)
       IN IF flightIds.kind = "array" THEN getFlightDetails(flightIds.value)
          ELSE <<>>

\* SELECT * FROM airlines WHERE id IN (the airlines of the flights)
airlineDetails(details) == {airline_id(details[k]) : k \in DOMAIN details}

\* getBookingHistory: the flights of the stored itinerary, and the answer
historyFlights(p) ==
  /\ procs[p].pc = "historyFlights"
  /\ procs' = [procs EXCEPT ![p] =
       LET details == flightDetails(procs[p].ret.booking.flight_ids)
       IN Done(p, "Found",
               [procs[p].ret EXCEPT !.flight_details = details,
                                    !.airline_details = airlineDetails(details)])]
  /\ UNCHANGED <<flights, bookings, events, counters, today>>

(***************************************************************************)
(* TimelineService.addTimelineEvent and deleteTimelineEvent: operations of *)
(* the service that no route calls.  Each is taken as one step: the query  *)
(* that follows the INSERT reads back the row just written.                *)
(***************************************************************************)
\* addTimelineEvent(booking_id, event_type, location): booking_id must name
\* a booking (FOREIGN KEY); here a delivery at the destination is recorded.
addTimelineEvent ==
  /\ EventCount + Cardinality(MayAppend) < MaxEvents
  /\ \E booking_id \in DOMAIN bookings :
       events' = InsertEvent(
                   TimelineEvent(booking_id, "DELIVERED", bookings[booking_id].destination))
  /\ UNCHANGED <<flights, bookings, counters, today, procs>>

\* The rows of a timeline without the one at position k
WithoutRow(timeline, k) ==
  [j \in 1..(Len(timeline) - 1) |-> IF j < k THEN timeline[j] ELSE timeline[j + 1]]

\* deleteTimelineEvent(event_id): DELETE FROM timeline_events WHERE id = ?
\* for the id of the row at position k of booking i (an id of no row deletes
\* nothing and changes nothing)
deleteTimelineEvent ==
  /\ \E i \in DOMAIN events : \E k \in DOMAIN events[i] :
       events' = [events EXCEPT ![i] = WithoutRow(@, k)]
  /\ UNCHANGED <<flights, bookings, counters, today, procs>>

(***************************************************************************)
(* GET /routes, POST /routes/validate                                      *)
(***************************************************************************)
RouteRequest ==
  [origin : Airports, destination : Airports, departure_date : 0..MaxDate]

RECURSIVE SeqsUpTo(_, _)
SeqsUpTo(S, n) ==
  IF n = 0 THEN {<<>>}
  ELSE LET shorter == SeqsUpTo(S, n - 1)
       IN shorter \cup {Append(q, x) : q \in {r \in shorter : Len(r) = n - 1}, x \in S}

\* Bodies of POST /routes/validate: no schema stands before the handler.
ValidateRequest == SeqsUpTo(1..(Len(flights) + 1), MaxLegs)

\* RoutesController.searchRoutes; the flights table is never written, so its
\* queries are taken in one step.
searchRoutes(p) ==
  /\ MayStart(p)
  /\ \E request \in RouteRequest :
       LET proc == [IdleProc EXCEPT !.op = "search", !.req = request]
       IN procs' = [procs EXCEPT ![p] =
            IF request.origin = request.destination
            THEN Finished(proc, "InvalidRoute", NoRet)
            ELSE IF request.departure_date < today
            THEN Finished(proc, "InvalidDate", NoRet)
            ELSE Finished(proc, "Found", SearchResponse(request))]
  /\ UNCHANGED <<flights, bookings, events, counters, today>>

\* RoutesController.validateFlightSequence, for a body out of a set of bodies
RoutesController_validate(p, bodies) ==
  /\ MayStart(p)
  /\ \E flight_ids \in bodies :
       LET proc == [IdleProc EXCEPT !.op = "validate",
                                    !.req = [flight_ids |-> flight_ids]]
           validation == validateFlightSequence(flight_ids)
       IN procs' = [procs EXCEPT ![p] =
            IF Len(flight_ids) = 0 THEN Finished(proc, "InvalidInput", NoRet)
            ELSE IF validation # "" THEN Finished(proc, validation, NoRet)
            ELSE Finished(proc, "Valid", [flights |-> getFlightDetails(flight_ids)])]
  /\ UNCHANGED <<flights, bookings, events, counters, today>>

RoutesController_validateFlightSequence(p) == RoutesController_validate(p, ValidateRequest)

(***************************************************************************)
(* The response leaves the server: the slot is free for the next request.  *)
(***************************************************************************)
Respond(p) ==
  /\ procs[p].pc = "done"
  /\ procs' = [procs EXCEPT ![p] = IdleProc]
  /\ UNCHANGED <<flights, bookings, events, counters, today>>

(***************************************************************************)
(* Specifications                                                          *)
(***************************************************************************)
\* BookingModel.create, store call by store call
CreateStep(p) ==
  \/ generateRefId(p)
  \/ generateRefIdWrite(p)
  \/ insertBooking(p)
  \/ insertCreated(p)
  \/ createFind(p)
  \/ createHistory(p)

\* depart and arrive, store call by store call
TransitionStep(p) ==
  \/ updateStatus(p)
  \/ transitionFind(p)
  \/ transitionInsert(p)

\* cancel, store call by store call
CancelStep(p) ==
  \/ ReceiveCancel(p)
  \/ cancelFind(p)
  \/ cancelUpdate(p)
  \/ cancelInsert(p)

\* Requests overlap within one day: any request in flight may take its next
\* store call.
Next ==
  \E p \in Procs :
    \/ createBooking(p, TypicalRequests)
    \/ CreateStep(p)
    \/ ReceiveTransition(p, {"depart", "arrive"})
    \/ TransitionStep(p)
    \/ CancelStep(p)
    \/ Respond(p)

Spec == Init /\ [][Next]_vars

\* Requests do not overlap: a request takes a step only when no other request
\* is in flight.  Midnight may pass between store calls.
Alone == {p \in Procs : \A q \in Procs \ {p} : ~Active(q)}

SeqNext ==
  \/ Tick
  \/ \E p \in Procs :
       \/ p \in Alone /\ createBooking(p, TypicalRequests)
       \/ p \in Alone /\ generateRefId(p)
       \/ p \in Alone /\ generateRefIdWrite(p)
       \/ p \in Alone /\ insertBooking(p)
       \/ p \in Alone /\ insertCreated(p)
       \/ p \in Alone /\ createFind(p)
       \/ p \in Alone /\ createHistory(p)
       \/ p \in Alone /\ ReceiveTransition(p, {"depart", "arrive"})
       \/ p \in Alone /\ updateStatus(p)
       \/ p \in Alone /\ transitionFind(p)
       \/ p \in Alone /\ transitionInsert(p)
       \/ p \in Alone /\ ReceiveCancel(p)
       \/ p \in Alone /\ cancelFind(p)
       \/ p \in Alone /\ cancelUpdate(p)
       \/ p \in Alone /\ cancelInsert(p)
       \/ p \in Alone /\ Respond(p)

SeqSpec == Init /\ [][SeqNext]_vars

\* Create requests only, one at a time, with every request body.
CreateNext ==
  \/ createBooking(1, CreateBookingRequest)
  \/ CreateStep(1)
  \/ Respond(1)

CreateSpec == Init /\ [][CreateNext]_vars

\* Bookings are created, and then only depart requests arrive; they overlap
\* freely and their answers stay on record.
DepartNext ==
  \E p \in Procs :
    \/ createBooking(p, TypicalRequests)
    \/ CreateStep(p)
    \/ procs[p].op = "create" /\ Respond(p)
    \/ ReceiveTransition(p, {"depart"})
    \/ TransitionStep(p)

DepartSpec == Init /\ [][DepartNext]_vars

\* Requests do not overlap, and history is asked for between them: the
\* answers of history requests stay on record until the next request that
\* writes is received.
HistoryOnRecord == {q \in Procs : procs[q].op = "history" /\ procs[q].pc = "done"}

HistoryNext ==
  \E p \in Procs :
    \/ p \in Alone /\ HistoryOnRecord = {} /\ createBooking(p, TypicalRequests)
    \/ p \in Alone /\ generateRefId(p)
    \/ p \in Alone /\ generateRefIdWrite(p)
    \/ p \in Alone /\ insertBooking(p)
    \/ p \in Alone /\ insertCreated(p)
    \/ p \in Alone /\ createFind(p)
    \/ p \in Alone /\ createHistory(p)
    \/ p \in Alone /\ HistoryOnRecord = {} /\ ReceiveTransition(p, {"depart", "arrive"})
    \/ p \in Alone /\ updateStatus(p)
    \/ p \in Alone /\ transitionFind(p)
    \/ p \in Alone /\ transitionInsert(p)
    \/ p \in Alone /\ HistoryOnRecord = {} /\ ReceiveCancel(p)
    \/ p \in Alone /\ cancelFind(p)
    \/ p \in Alone /\ cancelUpdate(p)
    \/ p \in Alone /\ cancelInsert(p)
    \/ p \in Alone /\ ReceiveHistory(p)
    \/ p \in Alone /\ historyFind(p)
    \/ p \in Alone /\ historyTimeline(p)
    \/ p \in Alone /\ historyFlights(p)
    \/ p \in Alone /\ Respond(p)

HistorySpec == Init /\ [][HistoryNext]_vars

\* A bookings table with one row whose flight_ids column holds any text: the
\* JSON a create wrote, nothing, or a text written by other hands.  Requests
\* for its history and its transitions come one at a time.
TextLen == 3

TextChars == {"[", "]", ",", "1", "3", "9"}

StoredTexts ==
  UNION {[1..n -> TextChars] : n \in 0..TextLen}
    \cup {JSONstringify(<<1, 3>>), <<"[", "1", ",", "3">>, <<"n", "u", "l", "l">>,
          <<"[", "1", ",", ",", "3", "]">>}

StoredInit ==
  /\ flights = SeedFlights
  /\ \E text \in StoredTexts :
       bookings = <<[BookingRow(FormatRefId(1, 1), Request(Shipper1, "DEL", "BLR", <<>>))
                       EXCEPT !.flight_ids = text]>>
  /\ events = <<<<TimelineEvent(1, "CREATED", "DEL")>>>>
  /\ counters = [d \in {1} |-> 1]
  /\ today = 1
  /\ procs = [p \in Procs |-> IdleProc]

StoredNext ==
  \/ ReceiveHistory(1)
  \/ historyFind(1)
  \/ historyTimeline(1)
  \/ historyFlights(1)
  \/ ReceiveTransition(1, {"depart", "arrive"})
  \/ TransitionStep(1)
  \/ CancelStep(1)
  \/ Respond(1)

StoredSpec == StoredInit /\ [][StoredNext]_vars

\* The booking routes, one request at a time, next to a caller of the
\* timeline service.
TimelineNext ==
  \/ createBooking(1, TypicalRequests)
  \/ CreateStep(1)
  \/ ReceiveTransition(1, {"depart", "arrive"})
  \/ TransitionStep(1)
  \/ CancelStep(1)
  \/ Respond(1)
  \/ addTimelineEvent
  \/ deleteTimelineEvent

TimelineSpec == Init /\ [][TimelineNext]_vars

\* Create requests, one at a time, on a day that has seen bookings before:
\* the day's counter row holds what they left, the rows of those bookings are
\* not kept in the table.
CounterValues == {0, 8, 9, 99, 999, 9998, 9999}

CounterInit ==
  /\ flights = SeedFlights
  /\ bookings = <<>>
  /\ events = <<>>
  /\ \E c \in CounterValues :
       counters = [d \in (IF c = 0 THEN {} ELSE {1}) |-> c]
  /\ today = 1
  /\ procs = [p \in Procs |-> IdleProc]

CounterNext ==
  \/ createBooking(1, TypicalRequests)
  \/ CreateStep(1)
  \/ Respond(1)

CounterSpec == CounterInit /\ [][CounterNext]_vars

\* Route requests over every flights table drawn, on the first day of the
\* tables or the day before.
RouteInit ==
  /\ flights \in FlightTables
  /\ bookings = <<>>
  /\ events = <<>>
  /\ counters = [d \in {} |-> 0]
  /\ today \in 0..1
  /\ procs = [p \in Procs |-> IdleProc]

RouteNext ==
  \/ searchRoutes(1)
  \/ RoutesController_validateFlightSequence(1)
  \/ Respond(1)

RouteSpec == RouteInit /\ [][RouteNext]_vars

(***************************************************************************)
(* Properties                                                              *)
(***************************************************************************)
IsDone(p) == procs[p].pc = "done"

\* Number of events of one kind in the timeline of booking i
CountEvents(i, event_type) ==
  Cardinality({k \in DOMAIN events[i] : events[i][k].event_type = event_type})

DepartsOn(ref_id) ==
  {p \in Procs : procs[p].op = "depart" /\ procs[p].ref_id = ref_id}

\* C1: when every depart request sent against a booking (created BOOKED, and
\* addressed by depart requests only, overlapping in any way) has finished,
\* exactly one of them answered success and all the others failure, the
\* booking is DEPARTED and its timeline holds exactly one DEPARTED event.
C1_ExactlyOneDepartWins ==
  \A i \in DOMAIN bookings :
    LET D == DepartsOn(bookings[i].ref_id)
    IN (D # {} /\ \A p \in D : IsDone(p)) =>
         /\ Cardinality({p \in D : procs[p].result = "true"}) = 1
         /\ \A p \in D : procs[p].result \in {"true", "false"}
         /\ bookings[i].status = "DEPARTED"
         /\ CountEvents(i, "DEPARTED") = 1

\* Two depart requests on the same booking have both finished, one with
\* success and one with failure.
C1_Witness ==
  \E p, q \in Procs :
    /\ p # q
    /\ IsDone(p) /\ IsDone(q)
    /\ procs[p].op = "depart" /\ procs[q].op = "depart"
    /\ procs[p].ref_id = procs[q].ref_id
    /\ findByRefId(procs[p].ref_id) # 0
    /\ procs[p].result = "true" /\ procs[q].result = "false"

\* Create requests that passed validation and hold a generated reference id
HoldsRefId(p) ==
  /\ procs[p].op = "create"
  /\ procs[p].pc \in {"insertBooking", "insertCreated", "createFind", "createHistory", "done"}
  /\ procs[p].ref_id # NoRef

\* C2: create requests overlapping on one calendar date all succeed, no two
\* of them are given the same reference id, and once they have finished the
\* counter parts of the day's bookings are exactly 0001..000M.
C2_ConcurrentCreatesDistinct ==
  /\ \A p \in Procs :
       procs[p].op = "create" /\ IsDone(p) => procs[p].result # "InternalError"
  /\ \A p, q \in Procs :
       p # q /\ HoldsRefId(p) /\ HoldsRefId(q) => procs[p].ref_id # procs[q].ref_id
  /\ CreatesInFlight = {} =>
       {bookings[i].ref_id : i \in DOMAIN bookings}
         = {FormatRefId(today, k) : k \in 1..Len(bookings)}

IsTransition(p) == procs[p].op \in {"depart", "arrive", "cancel"}

\* The status a successful transition request found the booking in
FoundStatus(p) ==
  IF procs[p].op = "cancel" THEN procs[p].status ELSE RequiredStatus(procs[p].op)

\* C3: of the transition requests racing to move one booking out of the same
\* status (BOOKED or DEPARTED, which a booking never re-enters), only one
\* answers success; two cancels of a BOOKED booking do not both succeed, nor
\* do a depart and a cancel.
C3_OneRacerSucceeds ==
  \A p, q \in Procs :
    ( /\ p # q
      /\ IsDone(p) /\ IsDone(q)
      /\ IsTransition(p) /\ IsTransition(q)
      /\ procs[p].ref_id = procs[q].ref_id
      /\ FoundStatus(p) = FoundStatus(q)
      /\ FoundStatus(p) \in {"BOOKED", "DEPARTED"} )
    => ~(procs[p].result = "true" /\ procs[q].result = "true")

\* C4: a booking that is ARRIVED never becomes CANCELLED.
C4_ArrivedNeverCancelled ==
  [][\A i \in DOMAIN bookings :
       bookings[i].status = "ARRIVED" => bookings'[i].status # "CANCELLED"]_vars

CancelStepOf(p) == procs[p].op = "cancel" /\ Active(p) /\ procs'[p] # procs[p]

\* C5: with no other request in flight, cancel answers false and writes
\* nothing when the booking is missing or ARRIVED or DELIVERED; when the
\* booking is BOOKED or DEPARTED it answers true, having set the status to
\* CANCELLED and appended exactly one CANCELLED event to that booking.
C5_CancelAlone ==
  [][\A p \in Procs :
       LET pr == procs[p]
           nx == procs'[p]
           i == findByRefId(pr.ref_id)
       IN CancelStepOf(p) =>
            \* the load decides: refused at once, or carried on
            /\ pr.pc = "cancelFind" =>
                 /\ UNCHANGED store
                 /\ (i = 0 \/ bookings[i].status \in {"ARRIVED", "DELIVERED"})
                      => nx.pc = "done" /\ nx.result = "false"
                 /\ (i # 0 /\ bookings[i].status \in {"BOOKED", "DEPARTED"})
                      => nx.pc # "done"
            \* a refusal comes from the load only
            /\ (nx.pc = "done" /\ nx.result = "false") =>
                 /\ pr.pc = "cancelFind"
                 /\ i = 0 \/ bookings[i].status \notin {"BOOKED", "DEPARTED"}
            \* a booking loaded BOOKED or DEPARTED ends CANCELLED with one event
            /\ (pr.pc = "cancelUpdate" /\ pr.status \in {"BOOKED", "DEPARTED"}) =>
                 /\ bookings'[i].status = "CANCELLED"
                 /\ UNCHANGED events
                 /\ nx.pc # "done"
            /\ (pr.pc = "cancelInsert" /\ pr.status \in {"BOOKED", "DEPARTED"}) =>
                 /\ nx.pc = "done" /\ nx.result = "true"
                 /\ bookings'[i].status = "CANCELLED"
                 /\ Len(events'[i]) = Len(events[i]) + 1
                 /\ events'[i][Len(events'[i])].event_type = "CANCELLED"
                 /\ CountEvents(i, "CANCELLED")' = 1
                 /\ \A j \in DOMAIN events : j # i => events'[j] = events[j]]_vars

\* A cancel has been refused on a booking that is ARRIVED.
C5_Witness ==
  \E p \in Procs :
    /\ procs[p].op = "cancel" /\ IsDone(p) /\ procs[p].result = "false"
    /\ findByRefId(procs[p].ref_id) # 0
    /\ bookings[findByRefId(procs[p].ref_id)].status = "ARRIVED"

\* C6: a cancel that finds the booking already CANCELLED answers false, and
\* no timeline ever holds more than one CANCELLED event.
C6_CancelOnCancelledFails ==
  /\ \A p \in Procs :
       (procs[p].op = "cancel" /\ IsDone(p) /\ procs[p].status = "CANCELLED")
         => procs[p].result = "false"
  /\ \A i \in DOMAIN bookings : CountEvents(i, "CANCELLED") <= 1

LifecycleEdges ==
  {<<"depart", "BOOKED", "DEPARTED">>, <<"arrive", "DEPARTED", "ARRIVED">>,
   <<"cancel", "BOOKED", "CANCELLED">>, <<"cancel", "DEPARTED", "CANCELLED">>}

\* C7: with no overlapping requests, every change of a booking's status is
\* made by a request along an edge of the lifecycle: depart BOOKED->DEPARTED,
\* arrive DEPARTED->ARRIVED, cancel BOOKED->CANCELLED or DEPARTED->CANCELLED.
C7_LifecycleEdges ==
  [][\A i \in DOMAIN bookings :
       bookings'[i].status # bookings[i].status =>
         \E p \in Procs :
           /\ procs'[p] # procs[p]
           /\ procs[p].ref_id = bookings[i].ref_id
           /\ <<procs[p].op, bookings[i].status, bookings'[i].status>> \in LifecycleEdges]_vars

\* A booking has gone all the way to ARRIVED.
C7_Witness ==
  \E i \in DOMAIN bookings :
    /\ bookings[i].status = "ARRIVED"
    /\ CountEvents(i, "DEPARTED") = 1 /\ CountEvents(i, "ARRIVED") = 1

Created(p) == procs[p].op = "create" /\ IsDone(p) /\ procs[p].result = "Created"

Rejected(proc) == proc.op = "create" /\ proc.pc = "done" /\ proc.result \in ValidationFailures

\* C9: the step in which a create request is turned down by validation
\* leaves the bookings, every timeline and every day's counter as they were.
C9_RejectedCreateWritesNothing ==
  [][\A p \in Procs :
       (procs[p].pc = "idle" /\ Rejected(procs'[p])) => UNCHANGED <<bookings, events, counters>>]_vars

\* A create request has been turned down while the store held a booking.
C9_Witness ==
  \E p \in Procs : Rejected(procs[p]) /\ Len(bookings) > 0 /\ DOMAIN counters # {}

\* The flights a request names, and the one leaving first / last
Resolved(ids) == {flights[i] : i \in DOMAIN flights \cap Range(ids)}
FirstLeg(ids) ==
  CHOOSE f \in Resolved(ids) :
    \A g \in Resolved(ids) : f.departure_datetime <= g.departure_datetime
LastLeg(ids) ==
  CHOOSE f \in Resolved(ids) :
    \A g \in Resolved(ids) : g.departure_datetime <= f.departure_datetime

\* C10: a create request with origin # destination whose flight ids pass
\* validateFlightSequence is answered RouteMismatch exactly when the flight
\* leaving first does not start at the requested origin or the flight leaving
\* last does not end at the requested destination, and creates the booking
\* otherwise; flight 1 (DEL->BOM) books DEL->BOM and is a RouteMismatch for
\* DEL->BLR.
C10_RouteMismatchIff ==
  \A p \in Procs :
    LET req == procs[p].req
    IN ( /\ procs[p].op = "create" /\ IsDone(p)
         /\ req.origin # req.destination
         /\ validateFlightSequence(req.flight_ids) = "" ) =>
         LET mismatch == \/ FirstLeg(req.flight_ids).origin # req.origin
                         \/ LastLeg(req.flight_ids).destination # req.destination
         IN /\ procs[p].result = "RouteMismatch" <=> mismatch
            /\ ~mismatch => procs[p].result = "Created"
            /\ (req.flight_ids = <<1>> /\ req.origin = "DEL" /\ req.destination = "BOM")
                 => procs[p].result = "Created"
            /\ (req.flight_ids = <<1>> /\ req.origin = "DEL" /\ req.destination = "BLR")
                 => procs[p].result = "RouteMismatch"

\* Flight 1 (DEL->BOM) has been turned down for a DEL->BLR request.
C10_Witness ==
  \E p \in Procs :
    /\ procs[p].op = "create" /\ IsDone(p)
    /\ procs[p].req.flight_ids = <<1>>
    /\ procs[p].req.origin = "DEL" /\ procs[p].req.destination = "BLR"
    /\ procs[p].result = "RouteMismatch"

Validated(p) == procs[p].op = "validate" /\ IsDone(p)

\* The flights an id list names, one per position, in flying order
RECURSIVE LegsInOrder(_, _)
LegsInOrder(ids, positions) ==
  IF positions = {} THEN <<>>
  ELSE LET before(j, k) ==
             LET f == flights[ids[j]]
                 g == flights[ids[k]]
             IN \/ f.departure_datetime < g.departure_datetime
                \/ /\ f.departure_datetime = g.departure_datetime
                   /\ (f.id < g.id \/ (f.id = g.id /\ j <= k))
           k == CHOOSE j \in positions : \A i \in positions : before(j, i)
       IN <<flights[ids[k]]>> \o LegsInOrder(ids, positions \ {k})

\* The rules some consecutive pair of legs breaks
RulesBroken(legs) ==
  LET gap(i) == legs[i + 1].departure_datetime - legs[i].arrival_datetime
      pairs == 1..(Len(legs) - 1)
  IN {rule \in {"RouteBreak", "InsufficientConnection", "ConnectionTooLong"} :
        \E i \in pairs :
          \/ rule = "RouteBreak" /\ legs[i].destination # legs[i + 1].origin
          \/ rule = "InsufficientConnection" /\ gap(i) < 120
          \/ rule = "ConnectionTooLong" /\ gap(i) > 1440}

\* C11: for a non-empty id list whose ids all resolve, validateFlightSequence
\* succeeds exactly when, with the legs put in order of departure, every leg
\* lands where the next one leaves and the next one leaves at least 2 hours
\* and at most 24 hours (both included) after it lands; one flight alone
\* always succeeds; when exactly one rule is broken the failure names it; an
\* empty list, or an id that does not resolve, is an InvalidSequence.
C11_ValidateFlightSequence ==
  /\ validateFlightSequence(<<>>) = "InvalidSequence"
  /\ \A p \in Procs :
       (Validated(p) /\ Len(procs[p].req.flight_ids) > 0) =>
         LET ids == procs[p].req.flight_ids
             result == procs[p].result
         IN IF \E k \in DOMAIN ids : ids[k] \notin DOMAIN flights
            THEN result = "InvalidSequence"
            ELSE LET broken == RulesBroken(LegsInOrder(ids, DOMAIN ids))
                 IN /\ result = "Valid" <=> broken = {}
                    /\ Len(ids) = 1 => result = "Valid"
                    /\ Cardinality(broken) = 1 => result \in broken

\* Three flights named out of flying order, the first connection of exactly
\* 2 hours, have been found valid.
C11_Witness ==
  /\ flights = BusyFlights
  /\ \E p \in Procs :
       Validated(p) /\ procs[p].req.flight_ids = <<11, 1, 3>> /\ procs[p].result = "Valid"

Searched(p) == procs[p].op = "search" /\ IsDone(p) /\ procs[p].result = "Found"

\* C12: every transit route (F1, F2) a search returns has F1 leaving the
\* requested origin on the search date for an airport other than the
\* requested destination, F2 leaving that airport for the destination on the
\* calendar day F1 lands or the day after, at least 2 hours and at most 24
\* hours after F1 lands; a second leg leaving 1.5 hours after the first one
\* lands is never returned.
C12_TransitRoutesSound ==
  \A p \in Procs :
    Searched(p) =>
      \A k \in DOMAIN procs[p].ret.transit_routes :
        LET request == procs[p].req
            F1 == procs[p].ret.transit_routes[k].first_flight
            F2 == procs[p].ret.transit_routes[k].second_flight
            gap == F2.departure_datetime - F1.arrival_datetime
        IN /\ F1 \in Range(flights) /\ F2 \in Range(flights)
           /\ F1.origin = request.origin
           /\ F1.departure_datetime \div 1440 = request.departure_date
           /\ F1.destination # request.destination
           /\ F2.origin = F1.destination
           /\ F2.destination = request.destination
           /\ (F2.departure_datetime \div 1440) - (F1.arrival_datetime \div 1440) \in {0, 1}
           /\ gap >= 120 /\ gap <= 1440
           /\ gap # 90

\* On the seeded table the search DEL->BLR has returned flight 1 with flight
\* 2 and nothing else, flight 3 (1.5 hours after flight 1 lands) and flight 5
\* (25 hours after) being on the table.
C12_Witness ==
  /\ flights = SeedFlights
  /\ \E p \in Procs :
       /\ Searched(p)
       /\ procs[p].req = [origin |-> "DEL", destination |-> "BLR", departure_date |-> 0]
       /\ Len(procs[p].ret.transit_routes) = 1
       /\ procs[p].ret.transit_routes[1].first_flight.id = 1
       /\ procs[p].ret.transit_routes[1].second_flight.id = 2

\* F2 connects to F1 for a search: F1 leaves the origin on the date for a hub
\* other than the destination, F2 flies hub to destination leaving 2 to 24
\* hours after F1 lands
Connects(request, F1, F2) ==
  /\ F1.origin = request.origin
  /\ F1.departure_datetime \div 1440 = request.departure_date
  /\ F1.destination # request.destination
  /\ F2.origin = F1.destination
  /\ F2.destination = request.destination
  /\ F2.departure_datetime - F1.arrival_datetime >= 120
  /\ F2.departure_datetime - F1.arrival_datetime <= 1440

Earlier(f, g) ==
  \/ f.departure_datetime < g.departure_datetime
  \/ f.departure_datetime = g.departure_datetime /\ f.id < g.id

\* F2 is one of the 5 earliest second legs connecting to F1
AmongEarliest(request, F1, F2) ==
  /\ Connects(request, F1, F2)
  /\ Cardinality({g \in Range(flights) : Connects(request, F1, g) /\ Earlier(g, F2)}) < 5

Qualifying(request) ==
  {pair \in Range(flights) \X Range(flights) : AmongEarliest(request, pair[1], pair[2])}

\* C13: below its caps the transit search is complete: when F2 is among the
\* 5 earliest second legs connecting to F1 and at most 10 such pairs exist,
\* the search returns the pair (F1, F2) and reports the connection time as
\* the minutes between F1's landing and F2's departure (150 for flights 1 and
\* 2 of the seeded table).
C13_TransitSearchComplete ==
  \A p \in Procs :
    Searched(p) =>
      LET request == procs[p].req
          routes == procs[p].ret.transit_routes
      IN /\ Cardinality(Qualifying(request)) <= 10 =>
              \A pair \in Qualifying(request) :
                \E k \in DOMAIN routes :
                  /\ routes[k].first_flight = pair[1]
                  /\ routes[k].second_flight = pair[2]
                  /\ routes[k].connection_time_minutes
                       = pair[2].departure_datetime - pair[1].arrival_datetime
         /\ ( /\ flights = SeedFlights
              /\ request = [origin |-> "DEL", destination |-> "BLR", departure_date |-> 0] )
            => \E k \in DOMAIN routes :
                 /\ routes[k].first_flight.id = 1 /\ routes[k].second_flight.id = 2
                 /\ routes[k].connection_time_minutes = 150

\* At the busy hub a search has returned ten routes, among them flight 1 with
\* flight 3 (exactly 2 hours apart), and not flight 1 with flight 8, its sixth
\* connection.
C13_Witness ==
  /\ flights = HubFlights
  /\ \E p \in Procs :
       /\ Searched(p)
       /\ procs[p].req = [origin |-> "DEL", destination |-> "BLR", departure_date |-> 1]
       /\ Len(procs[p].ret.transit_routes) = 10
       /\ \E k \in 1..10 :
            /\ procs[p].ret.transit_routes[k].first_flight.id = 1
            /\ procs[p].ret.transit_routes[k].second_flight.id = 3
            /\ procs[p].ret.transit_routes[k].connection_time_minutes = 120
       /\ \A k \in 1..10 :
            ~ /\ procs[p].ret.transit_routes[k].first_flight.id = 1
              /\ procs[p].ret.transit_routes[k].second_flight.id = 8

Elapsed(F1, F2) == F2.arrival_datetime - F1.departure_datetime

\* C14: a search returns at most 10 transit routes, in non-decreasing order
\* of total elapsed time (first departure to second arrival), and they are
\* the top 10: no candidate pair (a second leg among the 5 earliest
\* connections of its first leg) that was left out has a smaller elapsed time
\* than a returned route.
C14_TopTenByElapsedTime ==
  \A p \in Procs :
    Searched(p) =>
      LET request == procs[p].req
          routes == procs[p].ret.transit_routes
          returned == {<<routes[k].first_flight, routes[k].second_flight>> : k \in DOMAIN routes}
      IN /\ Len(routes) <= 10
         /\ \A k \in DOMAIN routes :
              /\ routes[k].total_duration_minutes
                   = Elapsed(routes[k].first_flight, routes[k].second_flight)
              /\ k > 1 => routes[k - 1].total_duration_minutes
                            <= routes[k].total_duration_minutes
         /\ \A pair \in Qualifying(request) \ returned :
              /\ Len(routes) = 10
              /\ \A r \in returned : Elapsed(pair[1], pair[2]) >= Elapsed(r[1], r[2])

\* With the late first leg on the table twelve pairs are candidates: ten have
\* been returned, and flight 1 with flight 7 (19 hours) is not among them.
C14_Witness ==
  /\ flights = BusyFlights
  /\ \E p \in Procs :
       /\ Searched(p)
       /\ procs[p].req = [origin |-> "DEL", destination |-> "BLR", departure_date |-> 1]
       /\ Cardinality(Qualifying(procs[p].req)) = 12
       /\ Len(procs[p].ret.transit_routes) = 10
       /\ procs[p].ret.transit_routes[1].total_duration_minutes = 300
       /\ procs[p].ret.transit_routes[10].total_duration_minutes = 1080
       /\ \A k \in 1..10 :
            ~ /\ procs[p].ret.transit_routes[k].first_flight.id = 1
              /\ procs[p].ret.transit_routes[k].second_flight.id = 7

\* C15: the direct flights a search returns are exactly the flights of the
\* table with the requested origin, destination and departure date, none
\* twice, in ascending order of departure; no flight is both a direct flight
\* and the first leg of a returned transit route.
C15_DirectFlightsExact ==
  \A p \in Procs :
    Searched(p) =>
      LET request == procs[p].req
          direct == procs[p].ret.direct_flights
          routes == procs[p].ret.transit_routes
      IN /\ Range(direct) = {f \in Range(flights) :
                               /\ f.origin = request.origin
                               /\ f.destination = request.destination
                               /\ f.departure_datetime \div 1440 = request.departure_date}
         /\ \A i, k \in DOMAIN direct :
              /\ i < k => direct[i].departure_datetime <= direct[k].departure_datetime
              /\ i # k => direct[i] # direct[k]
         /\ \A i \in DOMAIN direct, k \in DOMAIN routes : routes[k].first_flight # direct[i]

\* At the busy hub a search has returned the one direct flight next to ten
\* transit routes.
C15_Witness ==
  /\ flights = BusyFlights
  /\ \E p \in Procs :
       /\ Searched(p)
       /\ Len(procs[p].ret.direct_flights) = 1
       /\ procs[p].ret.direct_flights[1].id = 10
       /\ Len(procs[p].ret.transit_routes) = 10

\* C16: a depart on a booking that is missing or not BOOKED, and an arrive on
\* a booking that is missing or not DEPARTED, answer false (no error) in a
\* step that leaves every booking, every timeline and every counter as they
\* were; a depart or arrive that does not answer true answers false in that
\* way.  Requests may overlap.
C16_FailedTransitionWritesNothing ==
  [][\A p \in Procs :
       (procs[p].op \in {"depart", "arrive"} /\ procs'[p] # procs[p]) =>
         LET i == findByRefId(procs[p].ref_id)
             expected == IF procs[p].op = "depart" THEN "BOOKED" ELSE "DEPARTED"
             refused == i = 0 \/ bookings[i].status # expected
         IN /\ (procs[p].pc = "updateStatus" /\ refused) =>
                 /\ procs'[p].pc = "done" /\ procs'[p].result = "false"
                 /\ UNCHANGED <<bookings, events, counters>>
            /\ (procs'[p].pc = "done" /\ procs'[p].result # "true") =>
                 /\ procs'[p].result = "false"
                 /\ procs[p].pc = "updateStatus" /\ refused
                 /\ UNCHANGED <<bookings, events, counters>>]_vars

\* An arrive has been refused on a booking that is still BOOKED.
C16_Witness ==
  \E p \in Procs :
    /\ procs[p].op = "arrive" /\ IsDone(p) /\ procs[p].result = "false"
    /\ findByRefId(procs[p].ref_id) # 0
    /\ bookings[findByRefId(procs[p].ref_id)].status = "BOOKED"
    /\ Len(events[findByRefId(procs[p].ref_id)]) = 1

IsDigitChar(c) == c \in Range(DigitChars)

\* ^AC-\d{8}-\d{4}$
MatchesRefIdPattern(text) ==
  /\ Len(text) = 16
  /\ text[1] = "A" /\ text[2] = "C" /\ text[3] = "-"
  /\ \A i \in 4..11 : IsDigitChar(text[i])
  /\ text[12] = "-"
  /\ \A i \in 13..16 : IsDigitChar(text[i])

\* C17: every reference id that booking creation produces, whatever the
\* day's counter has reached, reads AC-YYYYMMDD-NNNN with a counter part of
\* exactly four digits: it matches ^AC-\d{8}-\d{4}$.
C17_RefIdMatchesPattern ==
  /\ \A i \in DOMAIN bookings : MatchesRefIdPattern(RefIdText(bookings[i].ref_id))
  /\ \A p \in Procs :
       HoldsRefId(p) => /\ Len(procs[p].ref_id.num) = 4
                        /\ MatchesRefIdPattern(RefIdText(procs[p].ref_id))

CounterOf(d) == IF d \in DOMAIN counters THEN counters[d] ELSE 0

\* Bookings up to row i whose reference id carries the date of row i
SameDateUpTo(i) ==
  {j \in 1..i : bookings[j].ref_id.date = bookings[i].ref_id.date}

\* C18: with no overlapping requests, the k-th reference generated on a date
\* carries the counter k (0001 for the first of a day), the counter row of
\* that date then holds k, no counter ever decreases, generating a reference
\* for one date leaves the rows of all other dates as they were, and no
\* generation fails.
C18_CounterPerDay ==
  [][/\ \A d \in DOMAIN counters : d \in DOMAIN counters' /\ counters'[d] >= counters[d]
     /\ \A p \in Procs :
          (procs[p].pc = "generateRefIdWrite" /\ procs'[p] # procs[p]) =>
            LET d == procs[p].dateKey
                k == CounterOf(d) + 1
            IN /\ procs'[p].pc = "insertBooking"
               /\ procs'[p].ref_id = [prefix |-> "AC", date |-> d, num |-> <<0, 0, 0, k>>]
               /\ DOMAIN counters' = DOMAIN counters \cup {d}
               /\ counters'[d] = k
               /\ \A e \in DOMAIN counters : e # d => counters'[e] = counters[e]
     /\ \A i \in DOMAIN bookings' :
          /\ bookings'[i].ref_id.num = <<0, 0, 0, Cardinality(SameDateUpTo(i)')>>
          /\ counters'[bookings'[i].ref_id.date] >= Cardinality(SameDateUpTo(i)')]_vars

\* Two bookings have been made one after the other on the same date: they
\* carry 0001 and 0002 and the date's counter holds 2.
C18_Witness ==
  /\ Len(bookings) = 2
  /\ bookings[1].ref_id.date = bookings[2].ref_id.date
  /\ bookings[1].ref_id.num = <<0, 0, 0, 1>>
  /\ bookings[2].ref_id.num = <<0, 0, 0, 2>>
  /\ counters[bookings[1].ref_id.date] = 2

AskedHistory(proc) == proc.op = "history" /\ proc.pc = "done"

\* C19: getHistory is a pure read: no step of it changes a booking, a
\* timeline, the flights or a counter; it answers NotFound exactly when no
\* booking carries the reference id, and otherwise the booking, its timeline
\* and the flights of its itinerary as the store holds them; two answers for
\* one reference id with no write between them are identical.
C19_HistoryPureRead ==
  [][/\ \A p \in Procs :
          (procs[p].op = "history" /\ procs'[p] # procs[p]) =>
            /\ UNCHANGED <<flights, bookings, events, counters>>
            /\ AskedHistory(procs'[p]) =>
                 LET rows == {i \in DOMAIN bookings : bookings[i].ref_id = procs[p].ref_id}
                 IN /\ procs'[p].result = "NotFound" <=> rows = {}
                    /\ procs'[p].result \in {"NotFound", "Found"}
                    /\ \A i \in rows :
                         /\ procs'[p].ret.booking = bookings[i]
                         /\ procs'[p].ret.timeline = events[i]
                         /\ Range(procs'[p].ret.flight_details)
                              = {f \in Range(flights) : f.id \in Range(JSONparse(bookings[i].flight_ids).value)}
     /\ \A p, q \in Procs :
          ( /\ AskedHistory(procs'[p]) /\ AskedHistory(procs'[q])
            /\ procs'[p].ref_id = procs'[q].ref_id )
          => procs'[p].result = procs'[q].result /\ procs'[p].ret = procs'[q].ret]_vars

\* Two history requests for a departed transit booking have both been
\* answered, with two events and two flights.
C19_Witness ==
  \E p, q \in Procs :
    /\ p # q
    /\ AskedHistory(procs[p]) /\ AskedHistory(procs[q])
    /\ procs[p].ref_id = procs[q].ref_id
    /\ procs[p].result = "Found" /\ procs[q].result = "Found"
    /\ procs[p].ret.booking.status = "DEPARTED"
    /\ Len(procs[p].ret.timeline) = 2
    /\ Len(procs[p].ret.flight_details) = 2

\* C20: the timeline is append-only: every step leaves each booking's
\* timeline as it was or extends it at the end; no event is changed, removed
\* or moved.
C20_TimelineAppendOnly ==
  [][\A i \in DOMAIN events :
       /\ i \in DOMAIN events'
       /\ Len(events'[i]) >= Len(events[i])
       /\ SubSeq(events'[i], 1, Len(events[i])) = events[i]]_vars

\* C21: no booking is ever DELIVERED and no timeline ever holds a DELIVERED
\* event, whatever create, depart, arrive and cancel requests run and however
\* they overlap.
C21_NeverDelivered ==
  /\ \A i \in DOMAIN bookings : bookings[i].status # "DELIVERED"
  /\ \A i \in DOMAIN events : \A k \in DOMAIN events[i] :
       events[i][k].event_type # "DELIVERED"
  /\ \A p \in Procs : procs[p].ret.status # "DELIVERED"

\* A booking has been taken to ARRIVED, the deepest status, with its three
\* events.
C21_Witness ==
  \E i \in DOMAIN bookings :
    /\ bookings[i].status = "ARRIVED"
    /\ Len(events[i]) = 3
    /\ events[i][3].event_type = "ARRIVED"

\* What a booking is created with and keeps
Particulars(b) ==
  <<b.ref_id, b.user_id, b.origin, b.destination, b.pieces, b.weight_kg, b.flight_ids>>

\* C22: a step of a depart, arrive or cancel request on booking b changes at
\* most b's status and appends at most one event to b's timeline, and only
\* the last store call of the request appends; every other booking and
\* timeline is left as it was; no step changes a booking's reference id,
\* owner, origin, destination, pieces, weight or itinerary, and no step
\* removes a booking.
C22_TransitionFrame ==
  [][/\ \A i \in DOMAIN bookings :
          /\ i \in DOMAIN bookings'
          /\ Particulars(bookings'[i]) = Particulars(bookings[i])
     /\ \A p \in Procs :
          (IsTransition(p) /\ procs'[p] # procs[p]) =>
            /\ Len(bookings') = Len(bookings)
            /\ UNCHANGED counters
            /\ \A i \in DOMAIN bookings :
                 IF bookings[i].ref_id = procs[p].ref_id
                 THEN \/ events'[i] = events[i]
                      \/ /\ Len(events'[i]) = Len(events[i]) + 1
                         /\ SubSeq(events'[i], 1, Len(events[i])) = events[i]
                         /\ bookings'[i] = bookings[i]
                         /\ procs[p].pc \in {"transitionInsert", "cancelInsert"}
                         /\ procs'[p].pc = "done"
                 ELSE bookings'[i] = bookings[i] /\ events'[i] = events[i]]_vars

\* Of two bookings one has been cancelled and holds two events while the
\* other is still BOOKED with the one event of its creation.
C22_Witness ==
  /\ Len(bookings) = 2
  /\ \E i, j \in DOMAIN bookings :
       /\ bookings[i].status = "CANCELLED" /\ Len(events[i]) = 2
       /\ bookings[j].status = "BOOKED" /\ Len(events[j]) = 1
  /\ \E p \in Procs : procs[p].op = "cancel" /\ IsDone(p) /\ procs[p].result = "true"

\* The stored itinerary of a booking is not the JSON of a list
NoItinerary(text) == Len(text) = 0

\* The texts that are the JSON of a list of at most two of the ids written
\* with the characters drawn
WellFormedTexts ==
  {JSONstringify(ids) : ids \in UNION {[1..n -> {1, 3, 9}] : n \in 0..2}}

Malformed(text) == Len(text) > 0 /\ text \notin WellFormedTexts

\* C23: a history request for a booking whose stored itinerary is malformed
\* or cannot be parsed, or that has no stored itinerary, is answered: with
\* the booking, its whole timeline, no flight details and no airlines.
C23_MalformedItineraryTolerated ==
  [][\A p \in Procs : \A i \in DOMAIN bookings :
       ( /\ procs[p].op = "history" /\ procs'[p] # procs[p]
         /\ AskedHistory(procs'[p])
         /\ bookings[i].ref_id = procs[p].ref_id
         /\ (Malformed(bookings[i].flight_ids) \/ NoItinerary(bookings[i].flight_ids)) )
       => /\ procs'[p].result = "Found"
          /\ procs'[p].ret.booking = bookings[i]
          /\ procs'[p].ret.timeline = events[i]
          /\ procs'[p].ret.flight_details = <<>>
          /\ procs'[p].ret.airline_details = {}]_vars

\* The history of a departed booking whose stored itinerary is the cut-off
\* text [1,3 has been answered with its two events.
C23_Witness ==
  \E p \in Procs :
    /\ AskedHistory(procs[p]) /\ procs[p].result = "Found"
    /\ procs[p].ret.booking.flight_ids = <<"[", "1", ",", "3">>
    /\ Len(procs[p].ret.timeline) = 2
    /\ procs[p].ret.flight_details = <<>>

\* The second legs a search has retrieved for the first legs landing at a hub
RetrievedAt(request, hub) ==
  UNION {Range(secondLegFlights(f, request.destination)) :
           f \in {g \in Range(firstLegFlights(request.origin, request.destination,
                                              request.departure_date)) :
                    g.destination = hub}}

\* C24: for every search and every hub, the second legs retrieved from that
\* hub to the destination for all the first legs landing there are at most
\* 5 flights, and so are the second legs the returned routes pair with
\* first legs through that hub.
C24_SecondLegsCappedPerHub ==
  \A p \in Procs :
    Searched(p) =>
      \A hub \in Airports :
        /\ Cardinality(RetrievedAt(procs[p].req, hub)) <= secondLegLimit
        /\ Cardinality({r.second_flight.id :
                          r \in {t \in Range(procs[p].ret.transit_routes) :
                                   t.transit_hub = hub}}) <= secondLegLimit

\* C25: CANCELLED is absorbing: no step of any depart, arrive or cancel
\* request, begun before or after the cancellation, takes a booking whose
\* status is CANCELLED to another status.
C25_CancelledAbsorbing ==
  [][\A i \in DOMAIN bookings :
       bookings[i].status = "CANCELLED" =>
         /\ i \in DOMAIN bookings'
         /\ bookings'[i].status = "CANCELLED"]_vars

\* A depart and a cancel of one booking have both been answered: the cancel
\* succeeded and the depart, whose update came after it, was refused.
C25_Witness ==
  \E i \in DOMAIN bookings : \E p, q \in Procs :
    /\ bookings[i].status = "CANCELLED"
    /\ Len(events[i]) = 2 /\ events[i][2].event_type = "CANCELLED"
    /\ procs[p].op = "cancel" /\ IsDone(p) /\ procs[p].result = "true"
    /\ procs[p].ref_id = bookings[i].ref_id
    /\ procs[q].op = "depart" /\ IsDone(q) /\ procs[q].result = "false"
    /\ procs[q].ref_id = bookings[i].ref_id

\* The event kind that goes with a status
KindOf(status) == IF status = "BOOKED" THEN "CREATED" ELSE status

\* No request on booking i is in progress
Quiescent(i) == \A p \in Procs : Active(p) => procs[p].ref_id # bookings[i].ref_id

\* C26: whenever no operation on a booking is in progress, its status is the
\* one that goes with the kind of the last event of its timeline (BOOKED with
\* CREATED, DEPARTED, ARRIVED and CANCELLED with the event of their name).
C26_StatusAgreesWithLastEvent ==
  \A i \in DOMAIN bookings :
    Quiescent(i) =>
      /\ events[i] # <<>>
      /\ events[i][Len(events[i])].event_type = KindOf(bookings[i].status)

\* An ARRIVED event of the timeline has a DEPARTED event before it
DepartedBeforeArrived(timeline) ==
  \A k \in DOMAIN timeline :
    timeline[k].event_type = "ARRIVED" =>
      \E j \in 1..(k - 1) : timeline[j].event_type = "DEPARTED"

\* C27: in every timeline, in the order of insertion, the first event is
\* CREATED and no ARRIVED event comes before the DEPARTED event, whatever
\* requests overlap.
C27_TimelineOrdered ==
  \A i \in DOMAIN events :
    /\ events[i] # <<>> => events[i][1].event_type = "CREATED"
    /\ DepartedBeforeArrived(events[i])

\* C28: in every state, those between the store calls of a create in
\* progress included, every booking of the table has at least one timeline
\* event and its first is CREATED, so that no request running next to the
\* create finds a booking with an empty timeline.
C28_NeverWithoutCreatedEvent ==
  \A i \in DOMAIN bookings :
    /\ events[i] # <<>>
    /\ events[i][1].event_type = "CREATED"

\* C29: a validation answers InvalidSequence ('Some flights not found') only
\* when some id of the list names no flight; a non-empty list whose ids all
\* name flights, one naming the same flight twice included, never gets that
\* answer.
C29_NotFoundOnlyWhenUnresolved ==
  \A p \in Procs :
    (Validated(p) /\ procs[p].result = "InvalidSequence") =>
      \E k \in DOMAIN procs[p].req.flight_ids :
        \A f \in Range(flights) : f.id # procs[p].req.flight_ids[k]

\* A search stays on record in slot 1 while the routes it returned are
\* handed, as they are and with their two ids exchanged, to the validation
\* route and to create requests with the origin and destination searched;
\* one booking is made.
RoutesOnRecord == IF Searched(1) THEN Range(procs[1].ret.transit_routes) ELSE {}

RouteLegs ==
  UNION {{<<r.first_flight.id, r.second_flight.id>>,
          <<r.second_flight.id, r.first_flight.id>>} : r \in RoutesOnRecord}

RouteBookings ==
  {Request(Shipper1, procs[1].req.origin, procs[1].req.destination, ids) : ids \in RouteLegs}

BookRouteNext ==
  \/ searchRoutes(1)
  \/ RoutesController_validate(2, RouteLegs)
  \/ bookings = <<>> /\ createBooking(2, RouteBookings)
  \/ CreateStep(2)
  \/ Respond(1)
  \/ Respond(2)

BookRouteSpec == RouteInit /\ [][BookRouteNext]_vars

SequenceFailures ==
  {"InvalidSequence", "RouteBreak", "InsufficientConnection", "ConnectionTooLong"}

\* The request answered in slot 2 was made of a route of the search on record
OfRouteOnRecord(op) ==
  /\ procs[2].op = op /\ IsDone(2)
  /\ procs[2].req.flight_ids \in RouteLegs
  /\ op = "create" => /\ procs[2].req.origin = procs[1].req.origin
                      /\ procs[2].req.destination = procs[1].req.destination

\* C30: on every flights table whose flights depart before they arrive, the
\* two flight ids of every transit route a search returns, in either order,
\* are accepted by the validation route, and a create request with the
\* origin and destination searched and those two ids is not refused with a
\* sequence failure or with RouteMismatch.
C30_ReturnedRoutesBookable ==
  /\ OfRouteOnRecord("validate") => procs[2].result = "Valid"
  /\ OfRouteOnRecord("create") =>
       procs[2].result \notin SequenceFailures \cup {"RouteMismatch"}

\* On the busy table a route of the search DEL->BLR has been booked with its
\* second leg named first.
C30_Witness ==
  /\ flights = BusyFlights
  /\ OfRouteOnRecord("create")
  /\ procs[2].result = "Created"
  /\ procs[2].req.flight_ids = <<4, 1>>
  /\ Len(bookings) = 1

TypeOK ==
  /\ \A i \in DOMAIN bookings : bookings[i].status \in BookingStatus
  /\ Len(events) = Len(bookings)
  /\ \A i \in DOMAIN events : \A k \in DOMAIN events[i] :
       events[i][k].event_type \in TimelineEventType /\ events[i][k].booking_id = i
  /\ Len(bookings) <= MaxBookings
  /\ EventCount <= MaxEvents
====
